---- MODULE Spec2Model ----
(***************************************************************************)
(* dcmtagger: the tree materializer (sortTreeByFilename, sortTreeByTags),  *)
(* the navigation commands and the search commands of lib.go, driven by    *)
(* the key handlers of main.go.                                            *)
(*                                                                         *)
(* A tview tree is modelled as a heap of TreeNode records indexed by the   *)
(* order of their NewTreeNode call; a node reference is its index, Nil is  *)
(* the nil pointer.  Texts are tuples of one-character strings so that     *)
(* strings.Contains and strings.ToLower are computed, not assumed.         *)
(***************************************************************************)
EXTENDS Integers, Sequences, FiniteSets, TLC

VARIABLES datasets, nodes, root, currentNode, searchText, sortMode, status, lastOp

vars == <<datasets, nodes, root, currentNode, searchText, sortMode, status, lastOp>>

(***************************************************************************)
(* Bounds of the materializer specification (SpecBuild).                   *)
(***************************************************************************)
MaxFiles == 2
MaxElems == 3

Nil == 0
NoRef == <<>>

(***************************************************************************)
(* Text helpers.                                                           *)
(***************************************************************************)
HexDigits == <<"0","1","2","3","4","5","6","7","8","9","a","b","c","d","e","f">>

Hex4(n) ==
  << HexDigits[((n \div 4096) % 16) + 1], HexDigits[((n \div 256) % 16) + 1],
     HexDigits[((n \div 16) % 16) + 1], HexDigits[(n % 16) + 1] >>

RECURSIVE Dec(_)
Dec(n) == IF n < 10 THEN << HexDigits[n + 1] >> ELSE Dec(n \div 10) \o << HexDigits[(n % 10) + 1] >>

UpperCase == { "A", "B", "D", "L", "N", "O", "P", "X", "Y" }

LowerChar(c) ==
  IF c \notin UpperCase THEN c
  ELSE CASE c = "A" -> "a" [] c = "B" -> "b" [] c = "D" -> "d" [] c = "L" -> "l"
         [] c = "N" -> "n" [] c = "O" -> "o" [] c = "P" -> "p" [] c = "X" -> "x"
         [] c = "Y" -> "y"

ToLower(s) == [i \in 1..Len(s) |-> LowerChar(s[i])]

Contains(s, sub) ==
  \E i \in 0..(Len(s) - Len(sub)) : \A j \in 1..Len(sub) : s[i + j] = sub[j]

(***************************************************************************)
(* Record model.  An element is [group, element, value]; its value is a    *)
(* single string (a one-entry string list), its VR is LO and its length is *)
(* the length of the string.  A reference to an element is the pair        *)
(* <<file index, element index>> (the pointer stored in Dataset.Elements). *)
(***************************************************************************)
RawValueRepresentation(e) == <<"L","O">>

ValueLength(e) == Len(e.value)

ValueString(e) == <<"[">> \o e.value \o <<"]">>

getTagName(e) ==
  IF e.group = 16 /\ e.element = 16 THEN <<"P","N">> ELSE <<>>

maxLength == 50

getValueString(e) ==
  LET value == e.value
  IN IF Len(value) > maxLength
     THEN SubSeq(value, 1, maxLength - 4) \o <<".",".",".","]">>
     ELSE value

NewTreeNode(text, ref) ==
  [text |-> text, children |-> <<>>, expanded |-> TRUE, reference |-> ref]

AddChild(h, parent, child) == [h EXCEPT ![parent].children = Append(@, child)]

RootDir == <<"d","i","r">>

(***************************************************************************)
(* sortTreeByFilename.  b is the tree under construction: the heap, the    *)
(* tree's root and current node, and ok = FALSE once the loop has          *)
(* dereferenced the nil currentGroupNode.                                  *)
(***************************************************************************)
FileElementText(e) ==
  <<"\t">> \o Hex4(e.element) \o <<" ">> \o getTagName(e) \o <<" ","(">>
    \o RawValueRepresentation(e) \o <<","," ">> \o Dec(ValueLength(e))
    \o <<")",":"," ">> \o getValueString(e)

RECURSIVE AddFileElements(_, _, _, _, _, _, _)
AddFileElements(b, fileNode, fi, elems, ei, currentGroupNode, currentGroup) ==
  IF ei > Len(elems) \/ ~b.ok THEN b
  ELSE
    LET e == elems[ei]
        newGroup == currentGroup # e.group
        groupNode == IF newGroup THEN Len(b.heap) + 1 ELSE currentGroupNode
        h1 == IF newGroup
              THEN AddChild(Append(b.heap, NewTreeNode(Hex4(e.group), NoRef)), fileNode, groupNode)
              ELSE b.heap
        elementNode == Len(h1) + 1
        h2 == Append(h1, NewTreeNode(FileElementText(e), <<fi, ei>>))
    IN IF groupNode = Nil
       THEN [b EXCEPT !.heap = h2, !.ok = FALSE]
       ELSE AddFileElements([b EXCEPT !.heap = AddChild(h2, groupNode, elementNode)],
                            fileNode, fi, elems, ei + 1, groupNode, e.group)

RECURSIVE AddFiles(_, _, _)
AddFiles(b, ds, fi) ==
  IF fi > Len(ds) \/ ~b.ok THEN b
  ELSE
    LET fileNode == Len(b.heap) + 1
        h1 == Append(b.heap, NewTreeNode(ds[fi].filename, NoRef))
        b1 == IF Len(ds) = 1
              THEN [b EXCEPT !.heap = h1, !.root = fileNode]
              ELSE [b EXCEPT !.heap = AddChild(h1, b.ret, fileNode)]
    IN AddFiles(AddFileElements(b1, fileNode, fi, ds[fi].elements, 1, Nil, 0), ds, fi + 1)

sortTreeByFilename(ds) ==
  AddFiles([heap |-> << NewTreeNode(RootDir, NoRef) >>, root |-> 1, cur |-> 1,
            ret |-> 1, ok |-> TRUE], ds, 1)

(***************************************************************************)
(* sortTreeByTags.                                                         *)
(***************************************************************************)
ElementRefs(ds) ==
  UNION { { <<fi, ei>> : ei \in 1..Len(ds[fi].elements) } : fi \in 1..Len(ds) }

ElementAt(ds, r) == ds[r[1]].elements[r[2]]

TagOf(e) == <<e.group, e.element>>

valuesByTag(ds, t) ==
  { ValueString(ElementAt(ds, r)) : r \in { q \in ElementRefs(ds) : TagOf(ElementAt(ds, q)) = t } }

valueLengthsByTag(ds, t) ==
  { ValueLength(ElementAt(ds, r)) : r \in { q \in ElementRefs(ds) : TagOf(ElementAt(ds, q)) = t } }

TagNodeText(ds, e) ==
  <<"\t">> \o Hex4(e.element) \o <<" ">> \o getTagName(e) \o <<" ","(">>
    \o RawValueRepresentation(e)
    \o (IF Cardinality(valueLengthsByTag(ds, TagOf(e))) = 1
        THEN <<","," ">> \o Dec(ValueLength(e)) ELSE <<>>)
    \o <<")","/">>

OccurrenceText(e, filename) ==
  <<"\t"," ">> \o getValueString(e) \o <<" ","(">> \o Dec(ValueLength(e))
    \o <<")","\t"," ","-"," ">> \o filename

Lookup_AlwaysMiss(map, key) == Nil

\* groupNodes and tagNodes are the maps groupNodesByGroupTag and tagNodesByTag,
\* kept as sets of <<key, node>> pairs.
Lookup(map, key) ==
  IF \E p \in map : p[1] = key THEN (CHOOSE p \in map : p[1] = key)[2] ELSE Nil

RECURSIVE AddTagElements(_, _, _, _, _, _, _)
AddTagElements_LazyGroup(b, ds, fi, ei, groupNodes, tagNodes, minDiffValuesPerTag) ==
  IF fi > Len(ds) THEN b
  ELSE IF ei > Len(ds[fi].elements)
  THEN AddTagElements(b, ds, fi + 1, 1, groupNodes, tagNodes, minDiffValuesPerTag)
  ELSE
    LET e == ds[fi].elements[ei]
        haveGroup == Lookup(groupNodes, e.group) # Nil
        currentGroupNode == IF haveGroup THEN Lookup(groupNodes, e.group) ELSE Len(b.heap) + 1
        h1 == IF haveGroup THEN b.heap
              ELSE AddChild(Append(b.heap, NewTreeNode(Hex4(e.group) \o <<"/">>, NoRef)),
                            b.ret, currentGroupNode)
        haveTag == Lookup(tagNodes, TagOf(e)) # Nil
        tagNode == IF haveTag THEN Lookup(tagNodes, TagOf(e)) ELSE Len(h1) + 1
        h2 == IF haveTag THEN h1
              ELSE AddChild(Append(h1, NewTreeNode(TagNodeText(ds, e), <<fi, ei>>)),
                            currentGroupNode, tagNode)
        h3 == AddChild(Append(h2, NewTreeNode(OccurrenceText(e, ds[fi].filename), <<fi, ei>>)),
                       tagNode, Len(h2) + 1)
    IN IF Cardinality(valuesByTag(ds, TagOf(e))) > minDiffValuesPerTag
       THEN AddTagElements([b EXCEPT !.heap = h3], ds, fi, ei + 1,
                           groupNodes \cup { <<e.group, currentGroupNode>> },
                           tagNodes \cup { <<TagOf(e), tagNode>> }, minDiffValuesPerTag)
       ELSE AddTagElements(b, ds, fi, ei + 1, groupNodes, tagNodes, minDiffValuesPerTag)

AddTagElements(b, ds, fi, ei, groupNodes, tagNodes, minDiffValuesPerTag) ==
  IF fi > Len(ds) THEN b
  ELSE IF ei > Len(ds[fi].elements)
  THEN AddTagElements(b, ds, fi + 1, 1, groupNodes, tagNodes, minDiffValuesPerTag)
  ELSE
    LET e == ds[fi].elements[ei]
        haveGroup == Lookup(groupNodes, e.group) # Nil
        currentGroupNode == IF haveGroup THEN Lookup(groupNodes, e.group) ELSE Len(b.heap) + 1
        h1 == IF haveGroup THEN b.heap
              ELSE AddChild(Append(b.heap, NewTreeNode(Hex4(e.group) \o <<"/">>, NoRef)),
                            b.ret, currentGroupNode)
        groupNodes1 == groupNodes \cup { <<e.group, currentGroupNode>> }
        emit == Cardinality(valuesByTag(ds, TagOf(e))) > minDiffValuesPerTag
        haveTag == Lookup(tagNodes, TagOf(e)) # Nil
        tagNode == IF haveTag THEN Lookup(tagNodes, TagOf(e)) ELSE Len(h1) + 1
        h2 == IF haveTag THEN h1
              ELSE AddChild(Append(h1, NewTreeNode(TagNodeText(ds, e), <<fi, ei>>)),
                            currentGroupNode, tagNode)
        tagNodes1 == tagNodes \cup { <<TagOf(e), tagNode>> }
        elementNode == Len(h2) + 1
        h3 == AddChild(Append(h2, NewTreeNode(OccurrenceText(e, ds[fi].filename), <<fi, ei>>)),
                       tagNode, elementNode)
    IN IF emit
       THEN AddTagElements([b EXCEPT !.heap = h3], ds, fi, ei + 1, groupNodes1, tagNodes1,
                           minDiffValuesPerTag)
       ELSE AddTagElements([b EXCEPT !.heap = h1], ds, fi, ei + 1, groupNodes1, tagNodes,
                           minDiffValuesPerTag)

sortTreeByTags_NoDelegation(ds, minDiffValuesPerTag) ==
  AddTagElements([heap |-> << NewTreeNode(RootDir, NoRef) >>, root |-> 1, cur |-> 1,
                  ret |-> 1, ok |-> TRUE], ds, 1, 1, {}, {}, minDiffValuesPerTag)

sortTreeByTags(ds, minDiffValuesPerTag) ==
  IF Len(ds) = 1 THEN sortTreeByFilename(ds)
  ELSE AddTagElements([heap |-> << NewTreeNode(RootDir, NoRef) >>, root |-> 1, cur |-> 1,
                       ret |-> 1, ok |-> TRUE], ds, 1, 1, {}, {}, minDiffValuesPerTag)

(***************************************************************************)
(* tview.TreeNode.Walk: depth-first, pre-order; the callback's result says *)
(* whether the walk descends into the node's children.  Every callback of  *)
(* lib.go decides that from the node alone, so the walk takes the set of   *)
(* nodes it descends into and yields the visited <<node, parent>> pairs.   *)
(***************************************************************************)
RECURSIVE Walk(_, _, _, _)
RECURSIVE WalkChildren(_, _, _, _, _)
Walk(h, n, parent, descend) ==
  << [node |-> n, parent |-> parent] >>
    \o (IF n \in descend THEN WalkChildren(h, h[n].children, 1, n, descend) ELSE <<>>)

WalkChildren(h, kids, i, parent, descend) ==
  IF i > Len(kids) THEN <<>>
  ELSE Walk(h, kids[i], parent, descend) \o WalkChildren(h, kids, i + 1, parent, descend)

AllNodes(h) == 1..Len(h)

\* TreeNode.CollapseAll / ExpandAll: a walk over the node's whole subtree.
SetExpandedAll(h, n, value) ==
  LET visited == { w.node : w \in { Walk(h, n, Nil, AllNodes(h))[i] :
                                     i \in 1..Len(Walk(h, n, Nil, AllNodes(h))) } }
  IN [k \in 1..Len(h) |-> IF k \in visited THEN [h[k] EXCEPT !.expanded = value] ELSE h[k]]

RECURSIVE collapseAllRecursive(_, _)
RECURSIVE CollapseChildrenFrom(_, _, _)
collapseAllRecursive(h, n) == CollapseChildrenFrom(h, h[n].children, 1)

CollapseChildrenFrom(h, kids, i) ==
  IF i > Len(kids) THEN h
  ELSE CollapseChildrenFrom(collapseAllRecursive(SetExpandedAll(h, kids[i], FALSE), kids[i]),
                            kids, i + 1)

\* collapseAllLeaves returns the heap; canCollapse is recomputed from the children.
RECURSIVE collapseAllLeaves(_, _)
RECURSIVE CollapseLeavesFrom(_, _, _)
collapseAllLeaves(h, n) ==
  LET h1 == CollapseLeavesFrom(h, h[n].children, 1)
      canCollapse == \A i \in 1..Len(h[n].children) : Len(h[h[n].children[i]].children) = 0
  IN IF canCollapse THEN SetExpandedAll(h1, n, FALSE) ELSE h1

CollapseLeavesFrom(h, kids, i) ==
  IF i > Len(kids) THEN h
  ELSE CollapseLeavesFrom(IF Len(h[kids[i]].children) > 0 THEN collapseAllLeaves(h, kids[i]) ELSE h,
                          kids, i + 1)

(***************************************************************************)
(* Tree queries of lib.go, all by walks from the root.                     *)
(***************************************************************************)
WalkNodes(w) == [i \in 1..Len(w) |-> w[i].node]

\* Go's 0-based index of x in seq, -1 when absent.
IndexOf(seq, x) ==
  IF \E i \in 1..Len(seq) : seq[i] = x
  THEN (CHOOSE i \in 1..Len(seq) : seq[i] = x) - 1
  ELSE -1

getParent(h, r, refNode) ==
  LET w == Walk(h, r, Nil, AllNodes(h) \ {refNode})
      i == IndexOf(WalkNodes(w), refNode)
  IN IF i >= 0 THEN w[i + 1].parent ELSE Nil

\* TreeNode.GetLevel: the level the tree view assigned at its last redraw,
\* which is the node's depth below the root (0 for a node never drawn).
RECURSIVE LevelsFrom(_, _, _)
LevelsFrom(h, n, level) ==
  { <<n, level>> } \cup UNION { LevelsFrom(h, h[n].children[i], level + 1) : i \in 1..Len(h[n].children) }

GetLevel(h, r, n) ==
  LET ls == LevelsFrom(h, r, 0)
  IN IF \E p \in ls : p[1] = n THEN (CHOOSE p \in ls : p[1] = n)[2] ELSE 0

getIsLevelPredicate(h, r, level) ==
  { p[1] : p \in { q \in LevelsFrom(h, r, 0) : q[2] = level } }
    \cup (IF level = 0 THEN AllNodes(h) \ { p[1] : p \in LevelsFrom(h, r, 0) } ELSE {})

collectAllVisibleNodesWithPred_Raw(h, r, findPred, findIdxNode) ==
  LET w == WalkNodes(Walk(h, r, Nil, AllNodes(h)))
      foundNodes == SelectSeq(w, LAMBDA n : n \in findPred)
  IN [foundNodes |-> foundNodes, foundIndex |-> IndexOf(foundNodes, findIdxNode)]

collectAllVisibleNodesWithPred(h, r, findPred, findIdxNode) ==
  LET w == WalkNodes(Walk(h, r, Nil, { n \in AllNodes(h) : h[n].expanded }))
      foundNodes == SelectSeq(w, LAMBDA n : n \in findPred)
  IN [foundNodes |-> foundNodes, foundIndex |-> IndexOf(foundNodes, findIdxNode)]

collectAllVisible(h, r) == collectAllVisibleNodesWithPred(h, r, AllNodes(h), Nil).foundNodes

collectSiblings(h, r, refNode) ==
  LET w == Walk(h, r, Nil, AllNodes(h) \ {refNode})
      i == IndexOf(WalkNodes(w), refNode)
  IN IF i < 0 THEN <<>>
     ELSE IF refNode = r THEN << refNode >>
     ELSE h[w[i + 1].parent].children

expandPathToNode_NodeOnly(h, r, n) == [h EXCEPT ![n].expanded = TRUE]

RECURSIVE expandPathToNode(_, _, _)
expandPathToNode(h, r, n) ==
  IF n = r THEN [h EXCEPT ![n].expanded = TRUE]
  ELSE LET parent == getParent(h, r, n)
           h1 == IF parent # Nil THEN expandPathToNode(h, r, parent)
                 ELSE [h EXCEPT ![n].expanded = TRUE]
       IN [h1 EXCEPT ![n].expanded = TRUE]

findPred(h, n, text) == Contains(ToLower(h[n].text), text)

RECURSIVE FindFold(_, _, _, _, _, _, _)
FindFold(h, w, i, cur, text, foundNodes, foundIndex) ==
  IF i > Len(w) THEN [foundNodes |-> foundNodes, foundIndex |-> foundIndex]
  ELSE LET n == w[i]
           found1 == IF findPred(h, n, text) THEN Append(foundNodes, n) ELSE foundNodes
           idx1 == IF cur = n
                   THEN (IF Len(found1) > 0 THEN Len(found1) - 1 ELSE 0)
                   ELSE foundIndex
       IN FindFold(h, w, i + 1, cur, text, found1, idx1)

findNodeRecursive_VisibleOnly(h, r, cur, text) ==
  FindFold(h, WalkNodes(Walk(h, r, Nil, { n \in AllNodes(h) : h[n].expanded })), 1, cur, text, <<>>, -1)

findNodeRecursive_FromFirst(h, r, cur, text) ==
  [FindFold(h, WalkNodes(Walk(h, r, Nil, AllNodes(h))), 1, cur, text, <<>>, -1)
     EXCEPT !.foundIndex = 0]

findNodeRecursive(h, r, cur, text) ==
  FindFold(h, WalkNodes(Walk(h, r, Nil, AllNodes(h))), 1, cur, text, <<>>, -1)

\* Go's % truncates toward zero.
GoMod(a, b) == IF a >= 0 THEN a % b ELSE 0 - ((0 - a) % b)

(***************************************************************************)
(* Navigation and search commands: each yields the heap, the current node  *)
(* and ok = FALSE when the command indexes a slice out of range.           *)
(***************************************************************************)
Result(h, cur) == [heap |-> h, cur |-> cur, ok |-> TRUE]

SetExpandedEach(h, ns, value) ==
  [k \in 1..Len(h) |->
     IF \E i \in 1..Len(ns) : ns[i] = k THEN [h[k] EXCEPT !.expanded = value] ELSE h[k]]

expandCurrentAndAllSiblings(h, r, cur) ==
  Result(SetExpandedEach(h, collectSiblings(h, r, cur), TRUE), cur)

collapseCurrentAndAllSiblings_Clear(h, r, cur) ==
  Result([h EXCEPT ![cur].children = <<>>], cur)

collapseCurrentAndAllSiblings(h, r, cur) ==
  Result(SetExpandedEach(h, collectSiblings(h, r, cur), FALSE), cur)

expandOrMoveToFirstChild_AlwaysMove(h, r, cur) ==
  IF Len(h[cur].children) > 0 THEN Result(h, h[cur].children[1]) ELSE Result(h, cur)

expandOrMoveToFirstChild_ExpandAndMove(h, r, cur) ==
  IF Len(h[cur].children) > 0
  THEN Result([h EXCEPT ![cur].expanded = TRUE], h[cur].children[1])
  ELSE Result(h, cur)

expandOrMoveToFirstChild(h, r, cur) ==
  IF Len(h[cur].children) > 0
  THEN IF h[cur].expanded
       THEN Result(h, h[cur].children[1])
       ELSE Result([h EXCEPT ![cur].expanded = TRUE], cur)
  ELSE Result(h, cur)

moveToParent_Root(h, r, cur) ==
  LET parent == getParent(h, r, cur)
  IN IF parent # Nil THEN Result(h, r) ELSE Result(h, cur)

moveToParent(h, r, cur) ==
  LET parent == getParent(h, r, cur)
  IN IF parent # Nil THEN Result(h, parent) ELSE Result(h, cur)

collapseOrMoveToParent_AlwaysMove(h, r, cur) ==
  IF Len(h[cur].children) > 0 /\ h[cur].expanded
  THEN [moveToParent(h, r, cur) EXCEPT !.heap = [h EXCEPT ![cur].expanded = FALSE]]
  ELSE moveToParent(h, r, cur)

collapseOrMoveToParent(h, r, cur) ==
  IF Len(h[cur].children) > 0 /\ h[cur].expanded
  THEN Result([h EXCEPT ![cur].expanded = FALSE], cur)
  ELSE moveToParent(h, r, cur)

moveToFirstChild_ExpandTarget(h, r, cur) ==
  IF Len(h[cur].children) > 0
  THEN Result([h EXCEPT ![h[cur].children[1]].expanded = TRUE], h[cur].children[1])
  ELSE Result(h, cur)

moveToFirstChild_NoExpand(h, r, cur) ==
  IF Len(h[cur].children) > 0 THEN Result(h, h[cur].children[1]) ELSE Result(h, cur)

moveToFirstChild_ExpandFirst(h, r, cur) ==
  IF Len(h[cur].children) > 0
  THEN Result([h EXCEPT ![cur].expanded = TRUE], h[cur].children[1])
  ELSE Result([h EXCEPT ![cur].expanded = TRUE], cur)

moveToFirstChild(h, r, cur) ==
  IF Len(h[cur].children) > 0
  THEN Result([h EXCEPT ![cur].expanded = TRUE], h[cur].children[1])
  ELSE Result(h, cur)

moveToFirstSibling_Previous(h, r, cur) ==
  LET siblings == collectSiblings(h, r, cur)
      i == IndexOf(siblings, cur)
  IN IF i > 0 THEN Result(h, siblings[i]) ELSE Result(h, cur)

moveToFirstSibling(h, r, cur) ==
  LET siblings == collectSiblings(h, r, cur)
  IN IF Len(siblings) > 0 THEN Result(h, siblings[1]) ELSE Result(h, cur)

moveToLastSibling(h, r, cur) ==
  LET siblings == collectSiblings(h, r, cur)
  IN IF Len(siblings) > 0 THEN Result(h, siblings[Len(siblings)]) ELSE Result(h, cur)

moveUpSameLevel_AnyLevel(h, r, cur) ==
  LET c == collectAllVisibleNodesWithPred(h, r, AllNodes(h), cur)
  IN IF c.foundIndex > 0 THEN Result(h, c.foundNodes[c.foundIndex]) ELSE Result(h, cur)

moveUpSameLevel(h, r, cur) ==
  LET c == collectAllVisibleNodesWithPred(h, r, getIsLevelPredicate(h, r, GetLevel(h, r, cur)), cur)
  IN IF c.foundIndex > 0 THEN Result(h, c.foundNodes[c.foundIndex]) ELSE Result(h, cur)

moveDownSameLevel_Wrap(h, r, cur) ==
  LET c == collectAllVisibleNodesWithPred(h, r, getIsLevelPredicate(h, r, GetLevel(h, r, cur)), cur)
  IN IF Len(c.foundNodes) > 0
     THEN Result(h, c.foundNodes[((c.foundIndex + 1) % Len(c.foundNodes)) + 1])
     ELSE Result(h, cur)

moveDownSameLevel(h, r, cur) ==
  LET c == collectAllVisibleNodesWithPred(h, r, getIsLevelPredicate(h, r, GetLevel(h, r, cur)), cur)
  IN IF c.foundIndex < Len(c.foundNodes) - 1
     THEN Result(h, c.foundNodes[c.foundIndex + 2])
     ELSE Result(h, cur)

jumpToRoot(h, r, cur) == Result(h, r)

jumpToLastVisibleNode_LastOfTree(h, r, cur) ==
  LET all == WalkNodes(Walk(h, r, Nil, AllNodes(h)))
  IN Result(h, all[Len(all)])

jumpToLastVisibleNode(h, r, cur) ==
  LET visible == collectAllVisible(h, r)
  IN IF Len(visible) > 0 THEN Result(h, visible[Len(visible)])
     ELSE [heap |-> h, cur |-> cur, ok |-> FALSE]

jumpToNthFoundNode_NoBias(h, r, cur, text, offset) ==
  IF Len(text) > 1
  THEN LET f == findNodeRecursive(h, r, cur, text)
           len == Len(f.foundNodes)
       IN IF len > 0
          THEN LET k == GoMod(f.foundIndex + offset, len)
               IN IF k < 0 \/ k >= len THEN [heap |-> h, cur |-> cur, ok |-> FALSE]
                  ELSE IF f.foundNodes[k + 1] # cur
                  THEN Result(expandPathToNode(h, r, f.foundNodes[k + 1]), f.foundNodes[k + 1])
                  ELSE Result(h, cur)
          ELSE Result(h, cur)
  ELSE Result(h, cur)

jumpToNthFoundNode_Focus(h, r, cur, text, offset) ==
  IF Len(text) > 1
  THEN LET f == findNodeRecursive(h, r, cur, text)
           len == Len(f.foundNodes)
       IN IF len > 0
          THEN LET k == GoMod(f.foundIndex + len + offset, len)
               IN IF k < 0 \/ k >= len THEN [heap |-> h, cur |-> cur, ok |-> FALSE]
                  ELSE IF f.foundNodes[k + 1] # cur
                  THEN Result(expandPathToNode(SetExpandedAll(h, r, FALSE), r, f.foundNodes[k + 1]),
                              f.foundNodes[k + 1])
                  ELSE Result(h, cur)
          ELSE Result(h, cur)
  ELSE Result(h, cur)

jumpToNthFoundNode_AlwaysExpand(h, r, cur, text, offset) ==
  IF Len(text) > 1
  THEN LET f == findNodeRecursive(h, r, cur, text)
           len == Len(f.foundNodes)
       IN IF len > 0
          THEN LET k == GoMod(f.foundIndex + len + offset, len)
               IN IF k < 0 \/ k >= len THEN [heap |-> h, cur |-> cur, ok |-> FALSE]
                  ELSE Result(expandPathToNode(h, r, f.foundNodes[k + 1]), f.foundNodes[k + 1])
          ELSE Result(h, cur)
  ELSE Result(h, cur)

jumpToNthFoundNode_MinOne(h, r, cur, text, offset) ==
  IF Len(text) > 0
  THEN LET f == findNodeRecursive(h, r, cur, text)
           len == Len(f.foundNodes)
       IN IF len > 0
          THEN LET k == GoMod(f.foundIndex + len + offset, len)
               IN IF k < 0 \/ k >= len THEN [heap |-> h, cur |-> cur, ok |-> FALSE]
                  ELSE IF f.foundNodes[k + 1] # cur
                  THEN Result(expandPathToNode(h, r, f.foundNodes[k + 1]), f.foundNodes[k + 1])
                  ELSE Result(h, cur)
          ELSE Result(h, cur)
  ELSE Result(h, cur)

jumpToNthFoundNode(h, r, cur, text, offset) ==
  IF Len(text) > 1
  THEN LET f == findNodeRecursive(h, r, cur, text)
           len == Len(f.foundNodes)
       IN IF len > 0
          THEN LET k == GoMod(f.foundIndex + len + offset, len)
               IN IF k < 0 \/ k >= len THEN [heap |-> h, cur |-> cur, ok |-> FALSE]
                  ELSE IF f.foundNodes[k + 1] # cur
                  THEN Result(expandPathToNode(h, r, f.foundNodes[k + 1]), f.foundNodes[k + 1])
                  ELSE Result(h, cur)
          ELSE Result(h, cur)
  ELSE Result(h, cur)

jumpToNextFoundNode(h, r, cur, text) == jumpToNthFoundNode(h, r, cur, text, 1)

jumpToPrevFoundNode_Stay(h, r, cur, text) == jumpToNthFoundNode(h, r, cur, text, 0)

jumpToPrevFoundNode(h, r, cur, text) == jumpToNthFoundNode(h, r, cur, text, -1)

(***************************************************************************)
(* Inputs.                                                                 *)
(***************************************************************************)
Element(g, e, v) == [group |-> g, element |-> e, value |-> v]

FileNames == << <<"A">>, <<"B">>, <<"D">>, <<"X">> >>

Entries(files) == [i \in 1..Len(files) |-> [filename |-> FileNames[i], elements |-> files[i]]]

\* The inputs of the navigation specification.
NavInputs ==
  { Entries(<< <<>> >>),
    Entries(<< << Element(8, 16, <<"x">>), Element(16, 16, <<"x">>), Element(16, 32, <<"y">>) >> >>),
    Entries(<< << Element(16, 16, <<"x">>) >>, << Element(16, 16, <<"y">>) >> >>),
    Entries(<< << Element(8, 16, <<"y">>), Element(8, 32, <<"y">>), Element(8, 48, <<"y">>) >> >>) }

\* The inputs of the materializer specification: at most MaxFiles files with
\* at most MaxElems elements in all.
ElementChoices ==
  { Element(0, 16, <<"x">>) }
    \cup { Element(8, e, v) : e \in { 16, 32 }, v \in { <<"x">>, <<"y">> } }

FilesUpTo(n) == UNION { [1..k -> ElementChoices] : k \in 0..n }

RECURSIVE FileLists(_, _)
FileLists(n, total) ==
  IF n = 0 THEN { <<>> }
  ELSE UNION { { << f >> \o rest : rest \in FileLists(n - 1, total - Len(f)) } : f \in FilesUpTo(total) }

BuildInputs == { Entries(fl) : fl \in UNION { FileLists(n, MaxElems) : n \in 0..MaxFiles } }

\* What the user types into the command line.
CmdlineTexts == { <<"/">>, <<"/"," ","X">>, <<":">> }

(***************************************************************************)
(* The program: start-up and the key handlers of main.go.                  *)
(***************************************************************************)
sortTreeByTag(ds) == sortTreeByTags(ds, 0)

sortTreeByUniqueTags_NoFilter(ds) == sortTreeByTags(ds, 0)

sortTreeByUniqueTags(ds) == sortTreeByTags(ds, 1)

Rebuilt_KeepCursor(b, collapsed, mode, op) ==
  /\ nodes' = IF b.ok THEN collapsed ELSE b.heap
  /\ root' = b.root
  /\ currentNode' = IF currentNode <= Len(b.heap) THEN currentNode ELSE b.cur
  /\ sortMode' = IF b.ok THEN mode ELSE sortMode
  /\ status' = IF b.ok THEN "ok" ELSE "panic"
  /\ lastOp' = op
  /\ UNCHANGED <<datasets, searchText>>

\* A rebuild followed by the handler's collapse call; a nil dereference
\* inside the rebuild ends the program.
Rebuilt(b, collapsed, mode, op) ==
  /\ nodes' = IF b.ok THEN collapsed ELSE b.heap
  /\ root' = b.root
  /\ currentNode' = b.cur
  /\ sortMode' = IF b.ok THEN mode ELSE sortMode
  /\ status' = IF b.ok THEN "ok" ELSE "panic"
  /\ lastOp' = op
  /\ UNCHANGED <<datasets, searchText>>

StartUp(ds) ==
  LET b == sortTreeByFilename(ds)
  IN /\ datasets = ds
     /\ nodes = IF b.ok THEN collapseAllRecursive(b.heap, b.ret) ELSE b.heap
     /\ root = b.root
     /\ currentNode = b.cur
     /\ searchText = <<>>
     /\ sortMode = "ByFilename"
     /\ status = IF b.ok THEN "ok" ELSE "panic"
     /\ lastOp = "start"

Init == \E ds \in NavInputs : StartUp(ds)

InitBuild == \E ds \in BuildInputs : StartUp(ds)

Key1 ==
  /\ status = "ok"
  /\ LET b == sortTreeByFilename(datasets)
     IN Rebuilt(b, collapseAllRecursive(b.heap, b.ret), "ByFilename", "1")

Key2 ==
  /\ status = "ok"
  /\ LET b == sortTreeByTag(datasets)
     IN Rebuilt(b, collapseAllLeaves(b.heap, b.ret), "ByTag", "2")

Key3 ==
  /\ status = "ok"
  /\ LET b == sortTreeByUniqueTags(datasets)
     IN Rebuilt(b, collapseAllLeaves(b.heap, b.ret), "ByTagDiffsOnly", "3")

\* The effect of a navigation or search command on the tree view.
Moved(res, op) ==
  /\ nodes' = res.heap
  /\ currentNode' = res.cur
  /\ status' = IF res.ok THEN "ok" ELSE "panic"
  /\ lastOp' = op
  /\ UNCHANGED <<datasets, root, sortMode>>

CmdlineChanged ==
  /\ status = "ok"
  /\ \E text \in CmdlineTexts :
       IF text[1] = "/" /\ Len(text) > 1
       THEN /\ searchText' = ToLower(SubSeq(text, 2, Len(text)))
            /\ Moved(jumpToNthFoundNode(nodes, root, currentNode, searchText', 0), "search")
       ELSE /\ lastOp' = "cmdline"
            /\ UNCHANGED <<datasets, nodes, root, currentNode, searchText, sortMode, status>>

Selected ==
  /\ status = "ok"
  /\ Moved(Result([nodes EXCEPT ![currentNode].expanded = ~@], currentNode), "enter")
  /\ UNCHANGED searchText

KeyLeft == status = "ok" /\ Moved(collapseOrMoveToParent(nodes, root, currentNode), "h") /\ UNCHANGED searchText

KeyRight == status = "ok" /\ Moved(expandOrMoveToFirstChild(nodes, root, currentNode), "l") /\ UNCHANGED searchText

KeyShiftLeft == status = "ok" /\ Moved(moveToParent(nodes, root, currentNode), "H") /\ UNCHANGED searchText

KeyShiftRight == status = "ok" /\ Moved(moveToFirstChild(nodes, root, currentNode), "L") /\ UNCHANGED searchText

KeyShiftUp == status = "ok" /\ Moved(moveUpSameLevel(nodes, root, currentNode), "K") /\ UNCHANGED searchText

KeyShiftDown == status = "ok" /\ Moved(moveDownSameLevel(nodes, root, currentNode), "J") /\ UNCHANGED searchText

KeyHome == status = "ok" /\ Moved(jumpToRoot(nodes, root, currentNode), "g") /\ UNCHANGED searchText

KeyEnd == status = "ok" /\ Moved(jumpToLastVisibleNode(nodes, root, currentNode), "G") /\ UNCHANGED searchText

KeyFirstSibling == status = "ok" /\ Moved(moveToFirstSibling(nodes, root, currentNode), "0") /\ UNCHANGED searchText

KeyLastSibling == status = "ok" /\ Moved(moveToLastSibling(nodes, root, currentNode), "$") /\ UNCHANGED searchText

KeyExpandSiblings == status = "ok" /\ Moved(expandCurrentAndAllSiblings(nodes, root, currentNode), "e") /\ UNCHANGED searchText

KeyCollapseSiblings == status = "ok" /\ Moved(collapseCurrentAndAllSiblings(nodes, root, currentNode), "c") /\ UNCHANGED searchText

KeyExpandAll == status = "ok" /\ Moved(Result(SetExpandedAll(nodes, currentNode, TRUE), currentNode), "E") /\ UNCHANGED searchText

KeyCollapseAll == status = "ok" /\ Moved(Result(SetExpandedAll(nodes, currentNode, FALSE), currentNode), "C") /\ UNCHANGED searchText

KeyNext == status = "ok" /\ Moved(jumpToNextFoundNode(nodes, root, currentNode, searchText), "n") /\ UNCHANGED searchText

KeyPrev == status = "ok" /\ Moved(jumpToPrevFoundNode(nodes, root, currentNode, searchText), "N") /\ UNCHANGED searchText

Next ==
  \/ Key1 \/ Key2 \/ Key3
  \/ CmdlineChanged \/ Selected
  \/ KeyLeft \/ KeyRight \/ KeyShiftLeft \/ KeyShiftRight
  \/ KeyShiftUp \/ KeyShiftDown \/ KeyHome \/ KeyEnd
  \/ KeyFirstSibling \/ KeyLastSibling
  \/ KeyExpandSiblings \/ KeyCollapseSiblings \/ KeyExpandAll \/ KeyCollapseAll
  \/ KeyNext \/ KeyPrev

Spec == Init /\ [][Next]_vars

NextBuild == Key1 \/ Key2 \/ Key3

SpecBuild == InitBuild /\ [][NextBuild]_vars

(***************************************************************************)
(* Vocabulary of the properties: the tree as a structure of child links,   *)
(* defined without the walks the commands use.                             *)
(***************************************************************************)
RECURSIVE PreOrder(_, _)
RECURSIVE PreOrderOfChildren(_, _, _)
PreOrder(h, n) == << n >> \o PreOrderOfChildren(h, h[n].children, 1)

PreOrderOfChildren(h, kids, i) ==
  IF i > Len(kids) THEN <<>> ELSE PreOrder(h, kids[i]) \o PreOrderOfChildren(h, kids, i + 1)

SeqToSet(seq) == { seq[i] : i \in 1..Len(seq) }

IsChildOf(h, n, p) == \E i \in 1..Len(h[p].children) : h[p].children[i] = n

ParentOf(h, n) ==
  IF \E p \in 1..Len(h) : IsChildOf(h, n, p)
  THEN CHOOSE p \in 1..Len(h) : IsChildOf(h, n, p)
  ELSE Nil

RECURSIVE Ancestors(_, _)
Ancestors(h, n) ==
  LET p == ParentOf(h, n)
  IN IF p = Nil THEN {} ELSE { p } \cup Ancestors(h, p)

Depth(h, n) == Cardinality(Ancestors(h, n))

TreeNodes(h, r) == { n \in 1..Len(h) : n = r \/ r \in Ancestors(h, n) }

IsMatch(h, n, text) == Contains(ToLower(h[n].text), text)

Matches(h, r, text) == SelectSeq(PreOrder(h, r), LAMBDA n : IsMatch(h, n, text))

RebuildOps == { "start", "1", "2", "3" }

SearchOps == { "search", "n", "N" }

(***************************************************************************)
(* C1: in every reachable state of a run on a non-empty input the cursor   *)
(* is a node reachable from the tree's root by child links.                *)
(***************************************************************************)
C1_CursorInTree ==
  Len(datasets) >= 1 => currentNode \in TreeNodes(nodes, root)

(***************************************************************************)
(* C2: right after every rebuild (start-up, keys 1, 2, 3) of a non-empty   *)
(* input the cursor is the root of the new tree.                           *)
(***************************************************************************)
C2_CursorIsRootAfterRebuild ==
  (lastOp \in RebuildOps /\ status = "ok" /\ Len(datasets) >= 1) => currentNode = root

(***************************************************************************)
(* C3: after a search jump (typed search, n, N) whose query has at least   *)
(* one match, every ancestor of the cursor, the root included, is expanded.*)
(***************************************************************************)
C3_AncestorsExpandedAfterJump ==
  (lastOp \in SearchOps /\ Len(searchText) > 1 /\ Matches(nodes, root, searchText) # <<>>)
    => /\ status = "ok"
       /\ \A a \in Ancestors(nodes, currentNode) : nodes[a].expanded

C3_Witness ==
  /\ lastOp = "n"
  /\ Len(searchText) > 1
  /\ IsMatch(nodes, currentNode, searchText)
  /\ Depth(nodes, currentNode) >= 2
  /\ Len(Matches(nodes, root, searchText)) >= 2

(***************************************************************************)
(* C4: with m >= 1 matches of a query of length >= 2 and the cursor on any *)
(* node of the tree, m successive jumpToNext calls put the cursor on every *)
(* match exactly once and end on the anchor match (the cursor's own match, *)
(* else the last match before the cursor, else the first match).           *)
(***************************************************************************)
SearchQueries == { <<" ","x">>, <<"1","0">> }

PositionOf(h, r, n) == IndexOf(PreOrder(h, r), n) + 1

AnchorMatch(h, r, cur, text) ==
  LET ms == Matches(h, r, text)
      before == { i \in 1..Len(ms) : PositionOf(h, r, ms[i]) <= PositionOf(h, r, cur) }
  IN IF before = {} THEN ms[1] ELSE ms[CHOOSE i \in before : \A j \in before : j <= i]

RECURSIVE CursorsOfNext(_, _, _, _, _)
CursorsOfNext(h, r, cur, text, k) ==
  IF k = 0 THEN <<>>
  ELSE LET res == jumpToNextFoundNode(h, r, cur, text)
       IN << res.cur >> \o CursorsOfNext(res.heap, r, res.cur, text, k - 1)

C4_NextCycleVisitsAll ==
  \A q \in SearchQueries :
    LET ms == Matches(nodes, root, q)
        cs == CursorsOfNext(nodes, root, currentNode, q, Len(ms))
    IN (status = "ok" /\ currentNode \in TreeNodes(nodes, root) /\ Len(ms) >= 1)
         => /\ SeqToSet(cs) = SeqToSet(ms)
            /\ Cardinality(SeqToSet(cs)) = Len(ms)
            /\ cs[Len(ms)] = AnchorMatch(nodes, root, currentNode, q)

C4_Witness ==
  /\ lastOp = "n"
  /\ searchText = <<" ","x">>
  /\ Len(Matches(nodes, root, searchText)) = 2
  /\ currentNode = Matches(nodes, root, searchText)[1]
  /\ Depth(nodes, currentNode) = 2

(***************************************************************************)
(* C5: with the cursor at place i of the list [n1..nk] of the nodes of its *)
(* depth that have all ancestors expanded, in pre-order, moveDownSameLevel *)
(* moves to n(i+1) and does nothing when i = k, moveUpSameLevel moves to   *)
(* n(i-1) and does nothing when i = 1.                                     *)
(***************************************************************************)
IsVisible(h, n) == \A a \in Ancestors(h, n) : h[a].expanded

VisibleAtDepth(h, r, d) ==
  SelectSeq(PreOrder(h, r), LAMBDA n : Depth(h, n) = d /\ IsVisible(h, n))

CursorLevel == VisibleAtDepth(nodes, root, Depth(nodes, currentNode))

CursorPlace == IndexOf(CursorLevel, currentNode) + 1

C5_SameLevelStepsByOne ==
  [][ (lastOp' \in { "J", "K" } /\ CursorPlace >= 1)
        => currentNode' =
             IF lastOp' = "J"
             THEN (IF CursorPlace < Len(CursorLevel) THEN CursorLevel[CursorPlace + 1] ELSE currentNode)
             ELSE (IF CursorPlace > 1 THEN CursorLevel[CursorPlace - 1] ELSE currentNode) ]_vars

C5_Witness ==
  /\ lastOp = "J"
  /\ Len(CursorLevel) = 3
  /\ CursorPlace = 3
  /\ ParentOf(nodes, CursorLevel[1]) # ParentOf(nodes, CursorLevel[3])

(***************************************************************************)
(* C6: after a rebuild by differing tags of two or more entries, a tag has *)
(* a tag node with occurrence children exactly if its elements render to   *)
(* more than one distinct value; a tag with one value has no node at all.  *)
(***************************************************************************)
InputTags(ds) == { TagOf(ElementAt(ds, r)) : r \in ElementRefs(ds) }

RenderedValues(ds, t) ==
  { ValueString(ElementAt(ds, r)) : r \in { q \in ElementRefs(ds) : TagOf(ElementAt(ds, q)) = t } }

NodesOfTag(h, r, ds, t) ==
  { n \in TreeNodes(h, r) : h[n].reference # NoRef /\ TagOf(ElementAt(ds, h[n].reference)) = t }

HasTagNode(h, r, ds, t) ==
  \E n \in NodesOfTag(h, r, ds, t) :
    /\ Depth(h, n) = 2
    /\ Len(h[n].children) >= 1
    /\ \A i \in 1..Len(h[n].children) : h[n].children[i] \in NodesOfTag(h, r, ds, t)

C6_DiffFilter ==
  (lastOp = "3" /\ Len(datasets) >= 2)
    => /\ status = "ok"
       /\ \A t \in InputTags(datasets) :
            IF Cardinality(RenderedValues(datasets, t)) > 1
            THEN HasTagNode(nodes, root, datasets, t)
            ELSE NodesOfTag(nodes, root, datasets, t) = {}

C6_Witness ==
  /\ lastOp = "3"
  /\ Len(datasets) >= 2
  /\ \E t \in InputTags(datasets) : HasTagNode(nodes, root, datasets, t)
  /\ \E t \in InputTags(datasets) : NodesOfTag(nodes, root, datasets, t) = {}

(***************************************************************************)
(* C7: after a rebuild by file name, for every input, the leaves of the    *)
(* tree reference every element of the input exactly once, and each leaf   *)
(* is a child of a group node labelled with the element's group id, which  *)
(* is a child of the node of the element's file.                           *)
(***************************************************************************)
Leaves(h, r) == { n \in TreeNodes(h, r) : Len(h[n].children) = 0 /\ h[n].reference # NoRef }

FileNodeOf(h, r, ds, fi) == IF Len(ds) = 1 THEN r ELSE h[r].children[fi]

C7_ByFileComplete ==
  lastOp \in { "start", "1" }
    => /\ status = "ok"
       /\ \A ref \in ElementRefs(datasets) :
            /\ Cardinality({ n \in Leaves(nodes, root) : nodes[n].reference = ref }) = 1
            /\ \A n \in Leaves(nodes, root) :
                 nodes[n].reference = ref
                   => /\ nodes[ParentOf(nodes, n)].text = Hex4(ElementAt(datasets, ref).group)
                      /\ ParentOf(nodes, ParentOf(nodes, n))
                           = FileNodeOf(nodes, root, datasets, ref[1])
       /\ \A n \in Leaves(nodes, root) : nodes[n].reference \in ElementRefs(datasets)

(***************************************************************************)
(* C8: with exactly one entry every rebuild, by file name, by tag or by    *)
(* differing tags, yields the same tree: shape, texts, references and      *)
(* child order.                                                            *)
(***************************************************************************)
RECURSIVE Shape(_, _)
Shape(h, n) ==
  [text |-> h[n].text, reference |-> h[n].reference,
   children |-> [i \in 1..Len(h[n].children) |-> Shape(h, h[n].children[i])]]

C8_SingleEntrySameTree ==
  [][ (Len(datasets) = 1 /\ status = "ok" /\ lastOp' \in { "1", "2", "3" })
        => (status' = "ok" /\ Shape(nodes', root') = Shape(nodes, root)) ]_vars

C8_Witness ==
  /\ lastOp = "2"
  /\ sortMode = "ByTag"
  /\ Len(datasets) = 1
  /\ Cardinality(Leaves(nodes, root)) >= 2

(***************************************************************************)
(* C9: a navigation command on an edge node changes neither the cursor nor *)
(* any expanded flag: moveToParent on the root, collapseOrMoveToParent on  *)
(* a collapsed or childless root, moveToFirstChild and                     *)
(* expandOrMoveToFirstChild on a childless node, moveUpSameLevel on the    *)
(* first and moveDownSameLevel on the last node of the cursor's level.     *)
(***************************************************************************)
Childless(n) == Len(nodes[n].children) = 0

EdgeCommand(op) ==
  \/ op = "H" /\ currentNode = root
  \/ op = "h" /\ currentNode = root /\ (Childless(root) \/ ~nodes[root].expanded)
  \/ op \in { "L", "l" } /\ Childless(currentNode)
  \/ op = "K" /\ CursorPlace = 1
  \/ op = "J" /\ CursorPlace >= 1 /\ CursorPlace = Len(CursorLevel)

C9_EdgeCommandsAreNoOps ==
  [][ EdgeCommand(lastOp') => (currentNode' = currentNode /\ nodes' = nodes /\ status' = "ok") ]_vars

C9_Witness ==
  /\ lastOp = "h"
  /\ currentNode = root
  /\ Childless(root)

(***************************************************************************)
(* C10: a navigation or search command changes no node's text, reference   *)
(* or child list, nor the set of nodes or the root.                        *)
(***************************************************************************)
Structure(h) == [n \in 1..Len(h) |-> [text |-> h[n].text, children |-> h[n].children,
                                       reference |-> h[n].reference]]

C10_CommandsKeepStructure ==
  [][ lastOp' \notin RebuildOps => (root' = root /\ Structure(nodes') = Structure(nodes)) ]_vars

C10_Witness ==
  /\ lastOp = "c"
  /\ Depth(nodes, currentNode) = 1
  /\ Len(nodes[currentNode].children) > 0
  /\ ~nodes[currentNode].expanded

(***************************************************************************)
(* C11: with a query of fewer than two characters, the empty one included, *)
(* jumpToNth with offset 0, +1 or -1 leaves the cursor and every expanded  *)
(* flag as they are, in every reachable tree and cursor position.          *)
(***************************************************************************)
ShortQueries == { <<>>, <<"0">>, <<"x">> }

C11_ShortQueryNoOp ==
  status = "ok"
    => \A q \in ShortQueries : \A offset \in { -1, 0, 1 } :
         jumpToNthFoundNode(nodes, root, currentNode, q, offset) = Result(nodes, currentNode)

C11_Witness ==
  /\ lastOp = "n"
  /\ Len(searchText) < 2
  /\ Depth(nodes, currentNode) >= 1
  /\ \E n \in TreeNodes(nodes, root) : n # currentNode /\ IsMatch(nodes, n, <<"0">>)

(***************************************************************************)
(* C12: a search jump changes the expanded flag of no node other than the  *)
(* proper ancestors of the node it selects: the flag of the selected node  *)
(* and of every node off the path from the root stays as it was.           *)
(***************************************************************************)
C12_JumpTouchesOnlyAncestors ==
  [][ lastOp' \in SearchOps
        => \A n \in 1..Len(nodes) :
             n \notin Ancestors(nodes, currentNode')
               => nodes'[n].expanded = nodes[n].expanded ]_vars

(***************************************************************************)
(* C13: with the cursor on a node of the tree and at least one match,      *)
(* jumpToNext moves to the first match strictly after the cursor in        *)
(* pre-order, else to the first match; jumpToPrev moves to the last match  *)
(* strictly before the cursor, else to the last match.                     *)
(***************************************************************************)
MatchesAfter(h, r, cur, text) ==
  SelectSeq(Matches(h, r, text), LAMBDA n : PositionOf(h, r, n) > PositionOf(h, r, cur))

MatchesBefore(h, r, cur, text) ==
  SelectSeq(Matches(h, r, text), LAMBDA n : PositionOf(h, r, n) < PositionOf(h, r, cur))

NextOccurrence(h, r, cur, text) ==
  IF MatchesAfter(h, r, cur, text) # <<>>
  THEN MatchesAfter(h, r, cur, text)[1]
  ELSE Matches(h, r, text)[1]

PrevOccurrence(h, r, cur, text) ==
  LET before == MatchesBefore(h, r, cur, text)
      ms == Matches(h, r, text)
  IN IF before # <<>> THEN before[Len(before)] ELSE ms[Len(ms)]

C13_NextPrevOccurrence ==
  [][ (/\ lastOp' \in { "n", "N" }
       /\ Len(searchText) > 1
       /\ currentNode \in TreeNodes(nodes, root)
       /\ Matches(nodes, root, searchText) # <<>>)
        => currentNode' = IF lastOp' = "n"
                          THEN NextOccurrence(nodes, root, currentNode, searchText)
                          ELSE PrevOccurrence(nodes, root, currentNode, searchText) ]_vars

(***************************************************************************)
(* C14 (as amended): a same-level move that moves the cursor never lands   *)
(* on a hidden node: every ancestor of the node moveUpSameLevel or         *)
(* moveDownSameLevel moves to is expanded.                                 *)
(***************************************************************************)
C14_SameLevelLandsVisible ==
  [][ (lastOp' \in { "J", "K" } /\ currentNode' # currentNode)
        => IsVisible(nodes', currentNode') ]_vars

C14_Witness ==
  /\ lastOp = "J"
  /\ CursorPlace >= 2
  /\ \E n \in TreeNodes(nodes, root) :
       Depth(nodes, n) = Depth(nodes, currentNode) /\ ~IsVisible(nodes, n)

(***************************************************************************)
(* C14 (as claimed): the same-level list is the full pre-order walk        *)
(* restricted to the cursor's depth, not gated by expanded flags, so that  *)
(* moveDownSameLevel moves to the next node of that depth also when that   *)
(* node has a collapsed ancestor.                                          *)
(***************************************************************************)
AllAtDepth(h, r, d) == SelectSeq(PreOrder(h, r), LAMBDA n : Depth(h, n) = d)

C14_SameLevelUsesRawWalk ==
  [][ (lastOp' = "J" /\ currentNode \in TreeNodes(nodes, root))
        => LET level == AllAtDepth(nodes, root, Depth(nodes, currentNode))
               place == IndexOf(level, currentNode) + 1
           IN currentNode' = IF place < Len(level) THEN level[place + 1] ELSE currentNode ]_vars

(***************************************************************************)
(* C15 (as amended): moveToParent changes no expanded flag; moveToFirstChild*)
(* on a node with children sets expanded on that node, the source, and     *)
(* changes no other flag: it does not expand the child it moves to.        *)
(***************************************************************************)
C15_FirstChildExpandsSource ==
  [][ lastOp' \in { "H", "L" }
        => \A n \in 1..Len(nodes) :
             nodes'[n].expanded =
               IF lastOp' = "L" /\ n = currentNode /\ Len(nodes[n].children) > 0
               THEN TRUE
               ELSE nodes[n].expanded ]_vars

C15_Witness ==
  /\ lastOp = "L"
  /\ Depth(nodes, currentNode) >= 1
  /\ nodes[ParentOf(nodes, currentNode)].expanded
  /\ Len(nodes[currentNode].children) > 0
  /\ ~nodes[currentNode].expanded

(***************************************************************************)
(* C15 (as claimed): moveToParent and moveToFirstChild leave the expanded  *)
(* flag of the node the cursor was on unchanged; the only flag that        *)
(* changes is that of the child moveToFirstChild moves to, which is set    *)
(* when that child has children.                                           *)
(***************************************************************************)
C15_FirstChildExpandsTarget ==
  [][ lastOp' \in { "H", "L" }
        => \A n \in 1..Len(nodes) :
             nodes'[n].expanded =
               IF /\ lastOp' = "L"
                  /\ n = currentNode'
                  /\ n # currentNode
                  /\ Len(nodes[n].children) > 0
               THEN TRUE
               ELSE nodes[n].expanded ]_vars

(***************************************************************************)
(* C16: moveToFirstChild on a node with children moves the cursor to the   *)
(* node's first child and leaves the node expanded, so that the child is   *)
(* shown whenever the node is; on a node without children it changes       *)
(* neither the cursor nor any node.                                        *)
(***************************************************************************)
C16_MoveToFirstChild ==
  [][ lastOp' = "L"
        => IF Len(nodes[currentNode].children) > 0
           THEN /\ currentNode' = nodes[currentNode].children[1]
                /\ nodes'[currentNode].expanded
                /\ IsVisible(nodes, currentNode) => IsVisible(nodes', currentNode')
           ELSE currentNode' = currentNode /\ nodes' = nodes ]_vars

C16_Witness ==
  /\ lastOp = "L"
  /\ Depth(nodes, currentNode) = 2
  /\ IsVisible(nodes, currentNode)
  /\ IsChildOf(nodes, currentNode, ParentOf(nodes, currentNode))
  /\ nodes[ParentOf(nodes, currentNode)].children[1] = currentNode

(***************************************************************************)
(* C17: collapseOrMoveToParent collapses an expanded node with children    *)
(* and keeps the cursor; on any other node it changes no expanded flag and *)
(* moves the cursor to the node's parent, if the node has one.             *)
(***************************************************************************)
C17_CollapseOrMoveToParent ==
  [][ lastOp' = "h"
        => IF Len(nodes[currentNode].children) > 0 /\ nodes[currentNode].expanded
           THEN /\ nodes' = [nodes EXCEPT ![currentNode].expanded = FALSE]
                /\ currentNode' = currentNode
           ELSE /\ nodes' = nodes
                /\ currentNode' = IF ParentOf(nodes, currentNode) # Nil
                                   THEN ParentOf(nodes, currentNode)
                                   ELSE currentNode ]_vars

C17_Witness ==
  /\ lastOp = "h"
  /\ Depth(nodes, currentNode) >= 1
  /\ Len(nodes[currentNode].children) > 0
  /\ ~nodes[currentNode].expanded

(***************************************************************************)
(* C18: expandOrMoveToFirstChild expands a collapsed node with children    *)
(* and keeps the cursor; on an expanded node with children it moves to the *)
(* first child and changes no flag; on a childless node it changes nothing.*)
(***************************************************************************)
C18_ExpandOrMoveToFirstChild ==
  [][ lastOp' = "l"
        => IF Len(nodes[currentNode].children) = 0
           THEN nodes' = nodes /\ currentNode' = currentNode
           ELSE IF nodes[currentNode].expanded
           THEN nodes' = nodes /\ currentNode' = nodes[currentNode].children[1]
           ELSE /\ nodes' = [nodes EXCEPT ![currentNode].expanded = TRUE]
                /\ currentNode' = currentNode ]_vars

C18_Witness ==
  /\ lastOp = "l"
  /\ Depth(nodes, currentNode) >= 1
  /\ Len(nodes[currentNode].children) > 0
  /\ nodes[currentNode].expanded
  /\ ~nodes[nodes[currentNode].children[1]].expanded

(***************************************************************************)
(* C19: materializing an empty input, in any mode, is rejected with an     *)
(* error and yields no tree.                                               *)
(***************************************************************************)
C19_EmptyInputRejected ==
  Len(datasets) = 0 => (status = "error" /\ root = Nil)

(***************************************************************************)
(* C20: right after start-up and after every rebuild of a non-empty input  *)
(* every node of the tree, the root included, is collapsed.                *)
(***************************************************************************)
C20_AllCollapsedAfterBuild ==
  (lastOp \in RebuildOps /\ status = "ok" /\ Len(datasets) >= 1)
    => \A n \in TreeNodes(nodes, root) : ~nodes[n].expanded

(***************************************************************************)
(* C21: a rebuild discards the previous view: the tree, its root, the      *)
(* cursor and every expanded flag right after key 1, 2 or 3 are those the  *)
(* same key yields on a view that was never navigated, whatever cursor and *)
(* flags the run had before.                                               *)
(***************************************************************************)
FreshView(ds, op) ==
  LET b == CASE op = "1" -> sortTreeByFilename(ds)
             [] op = "2" -> sortTreeByTag(ds)
             [] op = "3" -> sortTreeByUniqueTags(ds)
  IN << IF op = "1" THEN collapseAllRecursive(b.heap, b.ret) ELSE collapseAllLeaves(b.heap, b.ret),
        b.root, b.cur >>

RECURSIVE GroupRuns(_, _, _)
GroupRuns(elems, i, runs) ==
  IF i > Len(elems) THEN runs
  ELSE IF i > 1 /\ elems[i].group = elems[i - 1].group
  THEN GroupRuns(elems, i + 1, [runs EXCEPT ![Len(runs)] = Append(@, i)])
  ELSE GroupRuns(elems, i + 1, Append(runs, << i >>))

C22_ByFileGroupRuns ==
  lastOp \in { "start", "1" }
    => /\ status = "ok"
       /\ \A fi \in 1..Len(datasets) :
            LET fileNode == FileNodeOf(nodes, root, datasets, fi)
                elems == datasets[fi].elements
                runs == GroupRuns(elems, 1, <<>>)
            IN /\ Len(nodes[fileNode].children) = Len(runs)
               /\ \A k \in 1..Len(runs) :
                    LET groupNode == nodes[fileNode].children[k]
                    IN /\ nodes[groupNode].text = Hex4(elems[runs[k][1]].group)
                       /\ [j \in 1..Len(nodes[groupNode].children) |->
                             nodes[nodes[groupNode].children[j]].reference]
                            = [j \in 1..Len(runs[k]) |-> <<fi, runs[k][j]>>]

(***************************************************************************)
(* C23: after a rebuild by tag of two or more entries the root's children  *)
(* are one group node per distinct group id, and a group node's children   *)
(* one tag node per distinct tag of that group, both in order of first     *)
(* appearance in the scan of the files in input order and their elements   *)
(* in file order; a tag node's children are the occurrences of its tag in  *)
(* scan order, so there are as many occurrence leaves as input elements.   *)
(***************************************************************************)
RECURSIVE ScanRefs(_, _)
ScanRefs(ds, fi) ==
  IF fi > Len(ds) THEN <<>>
  ELSE [ei \in 1..Len(ds[fi].elements) |-> <<fi, ei>>] \o ScanRefs(ds, fi + 1)

RECURSIVE FirstAppearance(_)
FirstAppearance(seq) ==
  IF seq = <<>> THEN <<>>
  ELSE LET init == FirstAppearance(SubSeq(seq, 1, Len(seq) - 1))
           last == seq[Len(seq)]
       IN IF last \in SeqToSet(init) THEN init ELSE Append(init, last)

ScanGroups(ds) == FirstAppearance([i \in 1..Len(ScanRefs(ds, 1)) |-> ElementAt(ds, ScanRefs(ds, 1)[i]).group])

ScanTags(ds) == FirstAppearance([i \in 1..Len(ScanRefs(ds, 1)) |-> TagOf(ElementAt(ds, ScanRefs(ds, 1)[i]))])

ChildRefs(h, n) == [j \in 1..Len(h[n].children) |-> h[h[n].children[j]].reference]

C23_ByTagStructure ==
  (lastOp = "2" /\ Len(datasets) >= 2)
    => /\ status = "ok"
       /\ [i \in 1..Len(nodes[root].children) |-> nodes[nodes[root].children[i]].text]
            = [i \in 1..Len(ScanGroups(datasets)) |-> Hex4(ScanGroups(datasets)[i]) \o <<"/">>]
       /\ \A i \in 1..Len(nodes[root].children) :
            LET groupNode == nodes[root].children[i]
                tags == SelectSeq(ScanTags(datasets), LAMBDA t : t[1] = ScanGroups(datasets)[i])
            IN /\ Len(nodes[groupNode].children) = Len(tags)
               /\ \A k \in 1..Len(tags) :
                    LET tagNode == nodes[groupNode].children[k]
                    IN /\ TagOf(ElementAt(datasets, nodes[tagNode].reference)) = tags[k]
                       /\ ChildRefs(nodes, tagNode)
                            = SelectSeq(ScanRefs(datasets, 1),
                                        LAMBDA ref : TagOf(ElementAt(datasets, ref)) = tags[k])
                       /\ \A j \in 1..Len(nodes[tagNode].children) :
                            Len(nodes[nodes[tagNode].children[j]].children) = 0
       /\ Cardinality({ n \in TreeNodes(nodes, root) : Depth(nodes, n) = 3 })
            = Len(ScanRefs(datasets, 1))
       /\ \A n \in TreeNodes(nodes, root) : Depth(nodes, n) <= 3

C23_Witness ==
  /\ lastOp = "2"
  /\ Len(datasets) >= 2
  /\ Len(ScanGroups(datasets)) = 2
  /\ ScanGroups(datasets)[1] > ScanGroups(datasets)[2]
  /\ \E n \in TreeNodes(nodes, root) : Depth(nodes, n) = 2 /\ Len(nodes[n].children) = 2

(***************************************************************************)
(* C24: the matches a search computes do not depend on the expanded flags: *)
(* in every reachable state they are the nodes of the tree whose label     *)
(* contains the query, in pre-order of the child links, the same as with   *)
(* every flag set and with every flag cleared; and right after a search    *)
(* jump the cursor is on a match with all its ancestors expanded.          *)
(***************************************************************************)
WithFlags(h, value) == [k \in 1..Len(h) |-> [h[k] EXCEPT !.expanded = value]]

C24_SearchIgnoresVisibility ==
  (lastOp \in SearchOps /\ Len(searchText) > 1 /\ status = "ok")
    => LET found == findNodeRecursive(nodes, root, currentNode, searchText).foundNodes
       IN /\ found = Matches(nodes, root, searchText)
          /\ found = findNodeRecursive(WithFlags(nodes, TRUE), root, currentNode, searchText).foundNodes
          /\ found = findNodeRecursive(WithFlags(nodes, FALSE), root, currentNode, searchText).foundNodes
          /\ found # <<>>
               => /\ currentNode \in SeqToSet(found)
                  /\ IsVisible(nodes, currentNode)

C24_Witness ==
  /\ lastOp \in SearchOps
  /\ Len(searchText) > 1
  /\ IsMatch(nodes, currentNode, searchText)
  /\ Depth(nodes, currentNode) >= 2
  /\ \E n \in TreeNodes(nodes, root) :
       n # currentNode /\ IsMatch(nodes, n, searchText) /\ ~IsVisible(nodes, n)

(***************************************************************************)
(* C25: expandCurrentAndAllSiblings / collapseCurrentAndAllSiblings leave  *)
(* the cursor where it is, set expanded to true / false on the current     *)
(* node and on every other child of its parent (on the root alone when the *)
(* cursor is the root) and leave every other node's flag unchanged.        *)
(***************************************************************************)
SiblingSet(h, r, n) ==
  IF n = r \/ ParentOf(h, n) = Nil THEN { n } ELSE SeqToSet(h[ParentOf(h, n)].children)

C26_FirstLastSibling ==
  [][ lastOp' \in { "0", "$" }
        => LET parent == ParentOf(nodes, currentNode)
               kids == IF parent = Nil THEN << currentNode >> ELSE nodes[parent].children
           IN /\ nodes' = nodes
              /\ currentNode' = IF lastOp' = "0" THEN kids[1] ELSE kids[Len(kids)]
              /\ IF lastOp' = "0"
                 THEN moveToFirstSibling(nodes', root, currentNode') = Result(nodes', currentNode')
                 ELSE moveToLastSibling(nodes', root, currentNode') = Result(nodes', currentNode') ]_vars

C26_Witness ==
  /\ lastOp = "0"
  /\ ParentOf(nodes, currentNode) # Nil
  /\ Len(nodes[ParentOf(nodes, currentNode)].children) >= 2
  /\ currentNode = nodes[ParentOf(nodes, currentNode)].children[1]

(***************************************************************************)
(* C27: jumpToLastVisibleNode never fails and moves the cursor to the last *)
(* node, in pre-order, of the nodes that have all ancestors expanded; that *)
(* node is collapsed or childless; no expanded flag changes.               *)
(***************************************************************************)
VisibleNodes(h, r) == SelectSeq(PreOrder(h, r), LAMBDA n : IsVisible(h, n))

C27_LastVisible ==
  [][ lastOp' = "G"
        => /\ status' = "ok"
           /\ nodes' = nodes
           /\ VisibleNodes(nodes, root)[1] = root
           /\ currentNode' = VisibleNodes(nodes, root)[Len(VisibleNodes(nodes, root))]
           /\ IsVisible(nodes', currentNode')
           /\ (~nodes'[currentNode'].expanded \/ Len(nodes'[currentNode'].children) = 0) ]_vars

C27_Witness ==
  /\ lastOp = "G"
  /\ Len(nodes[currentNode].children) > 0
  /\ ~nodes[currentNode].expanded
  /\ Depth(nodes, currentNode) >= 1
  /\ currentNode # PreOrder(nodes, root)[Len(PreOrder(nodes, root))]

(***************************************************************************)
(* C28: after a rebuild by differing tags of two or more entries the       *)
(* root's children are one group node per distinct group id of the input,  *)
(* in order of first appearance, also for a group all of whose tags are    *)
(* filtered out: such a group node has no children.                        *)
(***************************************************************************)
C28_GroupNodesOfFilteredTags ==
  (lastOp = "3" /\ Len(datasets) >= 2)
    => /\ status = "ok"
       /\ [i \in 1..Len(nodes[root].children) |-> nodes[nodes[root].children[i]].text]
            = [i \in 1..Len(ScanGroups(datasets)) |-> Hex4(ScanGroups(datasets)[i]) \o <<"/">>]
       /\ \A i \in 1..Len(nodes[root].children) :
            (\A t \in InputTags(datasets) :
               t[1] = ScanGroups(datasets)[i] => Cardinality(RenderedValues(datasets, t)) <= 1)
              => Len(nodes[nodes[root].children[i]].children) = 0

C28_Witness ==
  /\ lastOp = "3"
  /\ Len(datasets) >= 2
  /\ Len(nodes[root].children) = 2
  /\ Len(nodes[nodes[root].children[1]].children) > 0
  /\ Len(nodes[nodes[root].children[2]].children) = 0

(***************************************************************************)
(* C29: the anchor index findNodeRecursive returns is the index of the     *)
(* cursor in the match list when the cursor matches, else the index of the *)
(* last match before the cursor in pre-order, and 0 when no match precedes *)
(* the cursor or the walk does not meet the cursor.                        *)
(***************************************************************************)
ExpectedAnchorIndex(h, r, cur, text) ==
  LET ms == Matches(h, r, text)
      before == { i \in 1..Len(ms) : PositionOf(h, r, ms[i]) <= PositionOf(h, r, cur) }
  IN IF cur \notin TreeNodes(h, r) \/ before = {} THEN 0
     ELSE (CHOOSE i \in before : \A j \in before : j <= i) - 1

C30_CursorVisible ==
  status = "ok" => \A a \in Ancestors(nodes, currentNode) : nodes[a].expanded

C30_Witness ==
  /\ lastOp \in { "c", "C", "enter", "h" }
  /\ Depth(nodes, currentNode) = 2
  /\ ~nodes[currentNode].expanded
  /\ \E n \in TreeNodes(nodes, root) : ~IsVisible(nodes, n)

(***************************************************************************)
(* C31: for every query with m >= 1 matches, every offset in {-1, 0, 1}    *)
(* and the anchor index findNodeRecursive returns in any reachable state,  *)
(* -1 for a cursor the walk does not meet included, the index              *)
(* (anchor + m + offset) % m lies in 0..m-1, and no command of a run has   *)
(* indexed a list out of range.                                            *)
(***************************************************************************)
C31_IndexInRange ==
  /\ status # "panic"
  /\ \A q \in SearchQueries : \A offset \in { -1, 0, 1 } :
       LET f == findNodeRecursive(nodes, root, currentNode, q)
           m == Len(f.foundNodes)
       IN m >= 1 => /\ f.foundIndex \in -1..(m - 1)
                    /\ GoMod(f.foundIndex + m + offset, m) \in 0..(m - 1)

C31_Witness ==
  /\ currentNode \notin TreeNodes(nodes, root)
  /\ Len(Matches(nodes, root, <<"1","0">>)) = 1
  /\ findNodeRecursive(nodes, root, currentNode, <<"1","0">>).foundIndex = -1
  /\ jumpToNthFoundNode(nodes, root, currentNode, <<"1","0">>, -1).cur
       = Matches(nodes, root, <<"1","0">>)[1]

(***************************************************************************)
(* C32: a build by file name never appends an element leaf without a group *)
(* node: every node that references an element is the child of a node, and *)
(* the build does not fail, whatever the group id of a file's first        *)
(* element is, 0x0000 included.                                            *)
(***************************************************************************)
C32_LeafUnderGroupNode ==
  sortMode = "ByFilename"
    => /\ status # "panic"
       /\ \A n \in 1..Len(nodes) : nodes[n].reference # NoRef => ParentOf(nodes, n) # Nil

(***************************************************************************)
(* C33: moveUpSameLevel and moveDownSameLevel change no expanded flag, and *)
(* the node they leave the cursor on has the depth of the node the cursor  *)
(* was on.                                                                 *)
(***************************************************************************)
C33_SameLevelKeepsDepth ==
  [][ lastOp' \in { "J", "K" }
        => /\ nodes' = nodes
           /\ Depth(nodes', currentNode') = Depth(nodes, currentNode) ]_vars

C33_Witness ==
  /\ lastOp = "K"
  /\ Depth(nodes, currentNode) = 2
  /\ CursorPlace >= 1
  /\ CursorPlace < Len(CursorLevel)
  /\ \E n \in TreeNodes(nodes, root) : IsVisible(nodes, n) /\ Depth(nodes, n) = 1 /\ nodes[n].expanded

C35_SearchNeverCollapses ==
  [][ lastOp' \in SearchOps
        => \A n \in 1..Len(nodes) : nodes[n].expanded => nodes'[n].expanded ]_vars

C35_Witness ==
  /\ lastOp \in SearchOps
  /\ Len(searchText) > 1
  /\ IsMatch(nodes, currentNode, searchText)
  /\ Depth(nodes, currentNode) >= 2
  /\ \E n \in TreeNodes(nodes, root) :
       /\ n \notin Ancestors(nodes, currentNode) \cup { currentNode }
       /\ Len(nodes[n].children) > 0
       /\ nodes[n].expanded

(***************************************************************************)
(* C36: from every reachable state, collapseOrMoveToParent applied         *)
(* repeatedly reaches, within twice as many applications as there are      *)
(* nodes, a state with the cursor on the root and the root collapsed or    *)
(* childless, and one more application leaves that state unchanged.        *)
(***************************************************************************)
RECURSIVE RepeatLeft(_, _, _, _)
RepeatLeft(h, r, cur, k) ==
  IF k = 0 THEN Result(h, cur)
  ELSE LET res == collapseOrMoveToParent(h, r, cur)
       IN RepeatLeft(res.heap, r, res.cur, k - 1)

C37_NextPrevRoundTrip ==
  status = "ok"
    => \A q \in SearchQueries :
         currentNode \in SeqToSet(Matches(nodes, root, q))
           => LET next == jumpToNextFoundNode(nodes, root, currentNode, q)
                  prev == jumpToPrevFoundNode(nodes, root, currentNode, q)
              IN /\ jumpToPrevFoundNode(next.heap, root, next.cur, q).cur = currentNode
                 /\ jumpToNextFoundNode(prev.heap, root, prev.cur, q).cur = currentNode

C37_Witness ==
  /\ lastOp = "n"
  /\ searchText = <<" ","x">>
  /\ Len(Matches(nodes, root, searchText)) = 2
  /\ currentNode = Matches(nodes, root, searchText)[2]
  /\ jumpToNextFoundNode(nodes, root, currentNode, searchText).cur = Matches(nodes, root, searchText)[1]

(***************************************************************************)
(* C38: with the cursor on a node that has children, moveToFirstChild      *)
(* followed by moveToParent leaves the cursor on that node; and            *)
(* expandOrMoveToFirstChild applied twice to a collapsed node with         *)
(* children ends on its first child with the node expanded.                *)
(***************************************************************************)
C38_ChildParentRoundTrip ==
  (status = "ok" /\ Len(nodes[currentNode].children) > 0)
    => /\ LET child == moveToFirstChild(nodes, root, currentNode)
          IN /\ child.cur = nodes[currentNode].children[1]
             /\ moveToParent(child.heap, root, child.cur).cur = currentNode
       /\ ~nodes[currentNode].expanded
            => LET once == expandOrMoveToFirstChild(nodes, root, currentNode)
                   twice == expandOrMoveToFirstChild(once.heap, root, once.cur)
               IN /\ twice.cur = nodes[currentNode].children[1]
                  /\ twice.heap[currentNode].expanded

C38_Witness ==
  /\ lastOp = "h"
  /\ Depth(nodes, currentNode) = 1
  /\ Len(nodes[currentNode].children) > 0
  /\ ~nodes[currentNode].expanded
  /\ ParentOf(nodes, currentNode) # Nil /\ nodes[ParentOf(nodes, currentNode)].children[1] # currentNode

(***************************************************************************)
(* C39: the jump of a typed search is idempotent: jumpToNthFoundNode with  *)
(* offset 0 applied to its own result changes neither the cursor nor any   *)
(* expanded flag, and applied with the cursor on a match it changes        *)
(* nothing.                                                                *)
(***************************************************************************)
C39_TypedSearchIdempotent ==
  status = "ok"
    => \A q \in SearchQueries :
         LET once == jumpToNthFoundNode(nodes, root, currentNode, q, 0)
         IN /\ jumpToNthFoundNode(once.heap, root, once.cur, q, 0) = once
            /\ currentNode \in SeqToSet(Matches(nodes, root, q)) => once = Result(nodes, currentNode)

C39_Witness ==
  /\ lastOp = "search"
  /\ searchText = <<" ","x">>
  /\ IsMatch(nodes, currentNode, searchText)
  /\ Depth(nodes, currentNode) >= 2
  /\ nodes[currentNode].expanded
  /\ jumpToNthFoundNode(nodes, root, currentNode, searchText, 0) = Result(nodes, currentNode)

====
